---- MODULE Spec2Model ----
(***************************************************************************)
(* Payroll Processor (multi-sheet): a model of src/app.py.                 *)
(*                                                                         *)
(* Numbers.  Python floats are modelled as exact rationals plus NaN:       *)
(* a number is a record [nan, n, d] with d > 0 and n/d in lowest terms.    *)
(* Times of day are counted in units of 5 minutes (TicksPerHour per hour). *)
(* A DataFrame row / Python dict is a function from column names to cell   *)
(* values, so {**row, 'k': v} is function override.                        *)
(***************************************************************************)
EXTENDS Integers, Sequences, FiniteSets, TLC

VARIABLES
    date_format,        \* src/app.py:13-17  selected timestamp format profile
    employees,          \* src/app.py:30     rows of employees.csv
    ph_list,            \* src/app.py:31     lines of public_holidays.txt
    sheet_names,        \* src/app.py:159    xls.sheet_names
    xls,                \* src/app.py:156    worksheet name -> rows of the sheet
    sheet_idx,          \* src/app.py:159    position of the for loop
    processed_sheets,   \* src/app.py:157    dict sheet -> processed DataFrame
    warnings,           \* src/app.py:165    st.warning messages (sheet names)
    errors,             \* src/app.py:181,184 st.error messages
    output,             \* src/app.py:171-179 sheets rendered / written to the download
    pc                  \* position of the script: "loop" or "done"

vars == <<date_format, employees, ph_list, sheet_names, xls, sheet_idx,
          processed_sheets, warnings, errors, output, pc>>

-----------------------------------------------------------------------------
(* Bounds of the model *)
MaxSheets == 3
MaxRows == 2
MaxTicks == 150

(* Units *)
TicksPerHour == 12
TicksPerDay == 288

-----------------------------------------------------------------------------
(* Float arithmetic: exact rationals with NaN *)

Abs(x) == IF x < 0 THEN -x ELSE x

RECURSIVE GCD(_, _)
GCD(a, b) == IF b = 0 THEN a ELSE GCD(b, a % b)

NaN == [nan |-> TRUE, n |-> 0, d |-> 1]

Q(n, d) ==
    LET g == GCD(Abs(n), d)
    IN  [nan |-> FALSE, n |-> n \div g, d |-> d \div g]

Add(a, b) == IF a.nan \/ b.nan THEN NaN ELSE Q(a.n * b.d + b.n * a.d, a.d * b.d)
Sub(a, b) == IF a.nan \/ b.nan THEN NaN ELSE Q(a.n * b.d - b.n * a.d, a.d * b.d)
Mul(a, b) == IF a.nan \/ b.nan THEN NaN ELSE Q(a.n * b.n, a.d * b.d)
DivInt(a, k) == IF a.nan THEN NaN ELSE Q(a.n, a.d * k)

\* every ordered comparison with NaN is False
Lt(a, b) == ~a.nan /\ ~b.nan /\ a.n * b.d < b.n * a.d
Le(a, b) == ~a.nan /\ ~b.nan /\ a.n * b.d <= b.n * a.d

\* Python's min(a, b): b if b < a else a;  max(a, b): b if b > a else a
PyMin(a, b) == IF Lt(b, a) THEN b ELSE a
PyMax(a, b) == IF Lt(a, b) THEN b ELSE a

\* Python's round(x) for a float x: nearest integer, ties to even
PyRound(x) ==
    LET q == x.n \div x.d
        r == x.n % x.d
    IN  IF 2 * r < x.d THEN q
        ELSE IF 2 * r > x.d THEN q + 1
        ELSE IF q % 2 = 0 THEN q ELSE q + 1

-----------------------------------------------------------------------------
(* Calendar: datetime.date / calendar.monthrange *)

IsLeap(y) == (y % 4 = 0 /\ y % 100 # 0) \/ y % 400 = 0

\* calendar.monthrange(year, month)[1]
DaysInMonth(y, m) ==
    IF m = 2 THEN (IF IsLeap(y) THEN 29 ELSE 28)
    ELSE IF m \in {4, 6, 9, 11} THEN 30 ELSE 31

\* days since 1970-01-01 of the proleptic Gregorian date y-m-d
DayNumber(y, m, d) ==
    LET yy  == IF m <= 2 THEN y - 1 ELSE y
        era == yy \div 400
        yoe == yy - era * 400
        mp  == IF m > 2 THEN m - 3 ELSE m + 9
        doy == (153 * mp + 2) \div 5 + d - 1
        doe == yoe * 365 + yoe \div 4 - yoe \div 100 + doy
    IN  era * 146097 + doe - 719468

\* dt.date(y, m, d).weekday(): Monday = 0 ... Sunday = 6
Weekday(y, m, d) == (DayNumber(y, m, d) + 3) % 7

-----------------------------------------------------------------------------
(* Helper functions of the program *)

\* date.strftime('%Y-%m-%d'): the zero-padded ISO text of the date portion
Strftime(ts) == [y |-> ts.y, m |-> ts.m, d |-> ts.d, padded |-> TRUE]

is_public_holiday(date, holiday_list) == Strftime(date) \in holiday_list

round_to_nearest_half(x) == Q(PyRound(Mul(x, Q(2, 1))), 2)

count_working_days(month, year) ==
    Cardinality({d \in 1..DaysInMonth(year, month) : Weekday(year, month, d) # 1})

-----------------------------------------------------------------------------
(* Cells *)

\* pd.to_datetime(cell, format=date_format) raises unless the text of the
\* cell is written in the selected format profile
ToDatetimeRaises(cell, fmt) == cell.fmt # fmt

\* float(cell): text that is not a number raises ValueError; a blank cell is
\* read by pandas as the float NaN and float(NaN) is NaN
FloatRaises(cell) == cell.kind = "text" /\ ~cell.numeric
Float(cell) == cell.val

\* str.strip().lower() on the Status values that occur in the directory
StripLower(s) ==
    CASE s = "Full Time"   -> "full time"
      [] s = " full time " -> "full time"
      [] s = "Part Time"   -> "part time"
      [] s = "part time "  -> "part time"
      [] OTHER             -> s

\* (clock_out - clock_in).total_seconds() / 3600
HoursBetween(clock_in, clock_out) ==
    Q((DayNumber(clock_out.y, clock_out.m, clock_out.d)
         - DayNumber(clock_in.y, clock_in.m, clock_in.d)) * TicksPerDay
        + clock_out.t - clock_in.t, TicksPerHour)

-----------------------------------------------------------------------------
(* calculate_pay *)

DerivedCols == {"Adjusted Hours", "Hourly Rate", "Regular Hours", "Overtime Hours",
                "Is Public Holiday", "Regular Pay", "Overtime Pay", "Total Pay"}

\* DeductBreak with the eligibility test made inclusive (>= 4)
DeductBreak_Inclusive(raw) ==
    IF Le(Q(4, 1), raw)
    THEN IF Lt(raw, Q(10, 1)) THEN Sub(raw, Q(1, 2)) ELSE Sub(raw, Q(1, 1))
    ELSE raw

\* DeductBreak with the one-hour tier starting at 9 hours instead of 10
DeductBreak_EarlyTier(raw) ==
    IF Lt(Q(4, 1), raw)
    THEN IF Lt(raw, Q(9, 1)) THEN Sub(raw, Q(1, 2)) ELSE Sub(raw, Q(1, 1))
    ELSE raw

\* lines 72-80: raw hours, lunch break deduction, rounding
DeductBreak(raw) ==
    IF Lt(Q(4, 1), raw)
    THEN IF Lt(raw, Q(10, 1)) THEN Sub(raw, Q(1, 2)) ELSE Sub(raw, Q(1, 1))
    ELSE raw

AdjustedHours(raw) == round_to_nearest_half(DeductBreak(raw))

\* lines 82-86: OT Threshold from the employee info, default 8
OtThreshold(emp_row) ==
    IF "OT Threshold" \notin DOMAIN emp_row THEN Q(8, 1)
    ELSE IF FloatRaises(emp_row["OT Threshold"]) THEN Q(8, 1)
    ELSE Float(emp_row["OT Threshold"])

\* PayOf with the part-time holiday multipliers also applied to full time
PayOf_SameHolidayPremium(status, emp_row, clock_in, holiday, reg_hours, ot_hours) ==
    LET hourly_rate ==
            IF status = "full time"
            THEN DivInt(emp_row["Base Salary"],
                        count_working_days(clock_in.m, clock_in.y) * 8)
            ELSE emp_row["Hourly Rate"]
    IN  IF holiday
        THEN [rate |-> hourly_rate,
              reg  |-> Mul(Mul(reg_hours, hourly_rate), Q(2, 1)),
              ot   |-> Mul(Mul(ot_hours, hourly_rate), Q(3, 1))]
        ELSE [rate |-> hourly_rate,
              reg  |-> IF status = "full time" THEN Q(0, 1)
                       ELSE Mul(reg_hours, hourly_rate),
              ot   |-> Mul(Mul(ot_hours, hourly_rate), Q(3, 2))]

\* lines 94-116: hourly rate and the premium table
PayOf(status, emp_row, clock_in, holiday, reg_hours, ot_hours) ==
    IF status = "full time"
    THEN LET working_days == count_working_days(clock_in.m, clock_in.y)
             hourly_rate  == DivInt(emp_row["Base Salary"], working_days * 8)
         IN  IF holiday
             THEN [rate |-> hourly_rate,
                   reg  |-> Mul(reg_hours, hourly_rate),
                   ot   |-> Mul(Mul(ot_hours, hourly_rate), Q(2, 1))]
             ELSE [rate |-> hourly_rate,
                   reg  |-> Q(0, 1),
                   ot   |-> Mul(Mul(ot_hours, hourly_rate), Q(3, 2))]
    ELSE LET hourly_rate == emp_row["Hourly Rate"]
         IN  IF holiday
             THEN [rate |-> hourly_rate,
                   reg  |-> Mul(Mul(reg_hours, hourly_rate), Q(2, 1)),
                   ot   |-> Mul(Mul(ot_hours, hourly_rate), Q(3, 1))]
             ELSE [rate |-> hourly_rate,
                   reg  |-> Mul(reg_hours, hourly_rate),
                   ot   |-> Mul(Mul(ot_hours, hourly_rate), Q(3, 2))]

\* lines 120-130: {**row, 'Adjusted Hours': ..., ...}
MergeDerived(row, derived) ==
    [c \in DOMAIN row \cup DOMAIN derived |->
        IF c \in DOMAIN derived THEN derived[c] ELSE row[c]]

\* lines 65-69: the row raises when a timestamp cannot be parsed
RowRaises(row, fmt) ==
    \/ ToDatetimeRaises(row["Clock In"], fmt)
    \/ ToDatetimeRaises(row["Clock Out"], fmt)

\* lines 67-130: the dict appended to result_rows for one row
ItemizedRow(row, emp_info, holiday_list, fmt) ==
    LET clock_in     == row["Clock In"]
        clock_out    == row["Clock Out"]
        worked_hours == AdjustedHours(HoursBetween(clock_in, clock_out))
        ot_threshold == OtThreshold(emp_info[1])
        reg_hours    == PyMin(ot_threshold, worked_hours)
        ot_hours     == PyMax(Q(0, 1), Sub(worked_hours, ot_threshold))
        emp_row      == emp_info[1]
        status       == StripLower(emp_row["Status"])
        holiday      == is_public_holiday(clock_in, holiday_list)
        pay          == PayOf(status, emp_row, clock_in, holiday, reg_hours, ot_hours)
        total_pay    == Add(pay.reg, pay.ot)
    IN  MergeDerived(row,
            [c \in DerivedCols |->
                CASE c = "Adjusted Hours"    -> worked_hours
                  [] c = "Hourly Rate"       -> pay.rate
                  [] c = "Regular Hours"     -> reg_hours
                  [] c = "Overtime Hours"    -> ot_hours
                  [] c = "Is Public Holiday" -> holiday
                  [] c = "Regular Pay"       -> pay.reg
                  [] c = "Overtime Pay"      -> pay.ot
                  [] c = "Total Pay"         -> total_pay])

\* Series.sum(): NaN entries are skipped (skipna=True), the empty sum is 0
RECURSIVE SeriesSum(_)
SeriesSum(s) ==
    IF s = <<>> THEN Q(0, 1)
    ELSE IF Head(s).nan THEN SeriesSum(Tail(s))
    ELSE Add(Head(s), SeriesSum(Tail(s)))

Column(rows, c) == [k \in 1..Len(rows) |-> rows[k][c]]

IsHolidayRow(r) == r["Is Public Holiday"] = TRUE

\* lines 133-148: the TOTAL row
TotalsRow(result_rows, emp_info) ==
    LET emp_status == StripLower(emp_info[1]["Status"])
        total_reg  ==
            IF emp_status = "full time"
            THEN LET base_salary == emp_info[1]["Base Salary"]
                     extra_reg   == SeriesSum(Column(SelectSeq(result_rows, IsHolidayRow),
                                                     "Regular Pay"))
                 IN  Add(base_salary, extra_reg)
            ELSE SeriesSum(Column(result_rows, "Regular Pay"))
        total_ot   == SeriesSum(Column(result_rows, "Overtime Pay"))
    IN  [c \in {"Name", "Regular Pay", "Overtime Pay", "Total Pay"} |->
            CASE c = "Name"         -> "TOTAL"
              [] c = "Regular Pay"  -> total_reg
              [] c = "Overtime Pay" -> total_ot
              [] c = "Total Pay"    -> Add(total_reg, total_ot)]

\* lines 62-151.  raised: an exception left the function; df: the returned
\* DataFrame as the sequence of its rows (cells a row lacks are absent keys)
calculate_pay(df, emp_info, holiday_list, fmt) ==
    IF \E k \in 1..Len(df) : RowRaises(df[k], fmt)
    THEN [raised |-> TRUE, df |-> <<>>]
    ELSE LET result_rows == [k \in 1..Len(df) |->
                                ItemizedRow(df[k], emp_info, holiday_list, fmt)]
         IN  IF result_rows # <<>>
             THEN [raised |-> FALSE,
                   df |-> Append(result_rows, TotalsRow(result_rows, emp_info))]
             ELSE [raised |-> FALSE, df |-> result_rows]

-----------------------------------------------------------------------------
(* The multi-sheet processing loop *)

\* line 160-162: pd.read_excel, then df_sheet['Name'] = sheet
SetName(row, sheet) ==
    [c \in DOMAIN row \cup {"Name"} |-> IF c = "Name" THEN sheet ELSE row[c]]

ReadSheet(sheet) == [k \in 1..Len(xls[sheet]) |-> SetName(xls[sheet][k], sheet)]

\* line 163: employees[employees["Name"] == sheet]
EmpInfo(sheet) == LET Test(e) == e["Name"] = sheet IN SelectSeq(employees, Test)

Put(dict, key, value) ==
    [k \in DOMAIN dict \cup {key} |-> IF k = key THEN value ELSE dict[k]]

EmptyDict == [k \in {} |-> <<>>]

\* lines 164-166: no employee info, warn and continue
SkipWorksheet ==
    /\ pc = "loop"
    /\ sheet_idx <= Len(sheet_names)
    /\ EmpInfo(sheet_names[sheet_idx]) = <<>>
    /\ warnings' = Append(warnings, sheet_names[sheet_idx])
    /\ sheet_idx' = sheet_idx + 1
    /\ UNCHANGED <<date_format, employees, ph_list, sheet_names, xls,
                   processed_sheets, errors, output, pc>>

\* line 167: the worksheet is processed and stored
ProcessWorksheet ==
    /\ pc = "loop"
    /\ sheet_idx <= Len(sheet_names)
    /\ LET sheet    == sheet_names[sheet_idx]
           emp_info == EmpInfo(sheet)
       IN  /\ emp_info # <<>>
           /\ LET r == calculate_pay(ReadSheet(sheet), emp_info, ph_list, date_format)
              IN  /\ ~r.raised
                  /\ processed_sheets' = Put(processed_sheets, sheet, r.df)
    /\ sheet_idx' = sheet_idx + 1
    /\ UNCHANGED <<date_format, employees, ph_list, sheet_names, xls,
                   warnings, errors, output, pc>>

\* lines 167, 183-184: calculate_pay raises, the handler around the whole
\* loop reports the error and the script ends
RaiseError ==
    /\ pc = "loop"
    /\ sheet_idx <= Len(sheet_names)
    /\ LET sheet    == sheet_names[sheet_idx]
           emp_info == EmpInfo(sheet)
       IN  /\ emp_info # <<>>
           /\ calculate_pay(ReadSheet(sheet), emp_info, ph_list, date_format).raised
    /\ errors' = Append(errors, "Error")
    /\ pc' = "done"
    /\ UNCHANGED <<date_format, employees, ph_list, sheet_names, xls, sheet_idx,
                   processed_sheets, warnings, output>>

\* lines 169-179: the processed sheets are shown and written to the download
RenderSheets ==
    /\ pc = "loop"
    /\ sheet_idx > Len(sheet_names)
    /\ DOMAIN processed_sheets # {}
    /\ output' = processed_sheets
    /\ pc' = "done"
    /\ UNCHANGED <<date_format, employees, ph_list, sheet_names, xls, sheet_idx,
                   processed_sheets, warnings, errors>>

\* lines 180-181: nothing was processed
RenderNone ==
    /\ pc = "loop"
    /\ sheet_idx > Len(sheet_names)
    /\ DOMAIN processed_sheets = {}
    /\ errors' = Append(errors, "No worksheets were processed")
    /\ pc' = "done"
    /\ UNCHANGED <<date_format, employees, ph_list, sheet_names, xls, sheet_idx,
                   processed_sheets, warnings, output>>

Next == SkipWorksheet \/ ProcessWorksheet \/ RaiseError \/ RenderSheets \/ RenderNone

-----------------------------------------------------------------------------
(* Inputs: the employee directory, the holiday file and the uploaded workbook *)

NumCell(q)     == [kind |-> "num",  numeric |-> TRUE,  val |-> q]
BlankCell      == [kind |-> "num",  numeric |-> TRUE,  val |-> NaN]
TextCell       == [kind |-> "text", numeric |-> FALSE, val |-> NaN]
NumericText(q) == [kind |-> "text", numeric |-> TRUE,  val |-> q]

OtCells == {NumCell(Q(8, 1)), NumCell(Q(6, 1)), NumCell(Q(15, 2)), NumCell(Q(-1, 1)),
            BlankCell, TextCell, NumericText(Q(7, 1))}

\* a row of employees.csv without / with the OT Threshold column; the rate
\* field the status does not use is blank
EmpBase(name, status) ==
    [c \in {"Name", "Status", "Base Salary", "Hourly Rate"} |->
        CASE c = "Name"        -> name
          [] c = "Status"      -> status
          [] c = "Base Salary" -> IF StripLower(status) = "full time"
                                  THEN Q(2600, 1) ELSE NaN
          [] c = "Hourly Rate" -> IF StripLower(status) = "full time"
                                  THEN NaN ELSE Q(10, 1)]

EmpWithOt(name, status, cell) ==
    [c \in DOMAIN EmpBase(name, status) \cup {"OT Threshold"} |->
        IF c = "OT Threshold" THEN cell ELSE EmpBase(name, status)[c]]

Statuses == {"Full Time", " full time ", "Part Time"}

EmployeeRows(name) ==
    {EmpBase(name, st) : st \in Statuses}
        \cup {EmpWithOt(name, st, cell) : st \in Statuses, cell \in OtCells}

Formats == {"Feedme", "Storehub"}

Stamp(fmt, date, t) ==
    [fmt |-> fmt, y |-> date[1], m |-> date[2], d |-> date[3], t |-> t]

\* two runs of consecutive civil days; shifts clock in on the middle day
December == << <<2024, 12, 24>>, <<2024, 12, 25>>, <<2024, 12, 26>> >>
February == << <<2025, 2, 27>>, <<2025, 2, 28>>, <<2025, 3, 1>> >>
Months == {December, February}

\* public_holidays.txt: Christmas, and a line that is not zero-padded
Holidays == {[y |-> 2024, m |-> 12, d |-> 25, padded |-> TRUE],
             [y |-> 2025, m |-> 2, d |-> 28, padded |-> FALSE]}

ClockInTick == 96
MaxEarly == 12

\* the timestamp `ticks` after 08:00 of the middle day of `days`
StampAfter(fmt, days, ticks) ==
    LET total == ClockInTick + ticks
    IN  Stamp(fmt, days[2 + total \div TicksPerDay], total % TicksPerDay)

Shift(fmt, days, ticks) ==
    [c \in {"Clock In", "Clock Out"} |->
        IF c = "Clock In" THEN Stamp(fmt, days[2], ClockInTick)
        ELSE StampAfter(fmt, days, ticks)]

\* pass-through columns of a worksheet
Extras == { [c \in {} |-> ""],
            [c \in {"Name", "Outlet"} |-> IF c = "Name" THEN "ali b." ELSE "KL"],
            [c \in {"Total Pay"} |-> Q(99, 1)] }

WithExtras(row, extra) ==
    [c \in DOMAIN row \cup DOMAIN extra |-> IF c \in DOMAIN extra THEN extra[c] ELSE row[c]]

SeqsUpTo(S, n) == UNION {[1..k -> S] : k \in 0..n}

Start ==
    /\ ph_list = Holidays
    /\ sheet_idx = 1
    /\ processed_sheets = EmptyDict
    /\ warnings = <<>>
    /\ errors = <<>>
    /\ output = EmptyDict
    /\ pc = "loop"

\* one worksheet with one shift: every duration, every kind of directory row
InitShift ==
    /\ date_format = "Feedme"
    /\ \E e \in EmployeeRows("Ali") : employees = <<e>>
    /\ sheet_names = <<"Ali">>
    /\ \E days \in Months, ticks \in (-MaxEarly)..MaxTicks :
          xls = [n \in {"Ali"} |-> <<Shift("Feedme", days, ticks)>>]
    /\ Start

BatchTicks == {36, 108, 132}
BatchEmployees ==
    {EmpWithOt("Ali", "Part Time", NumCell(Q(8, 1))), EmpBase("Ali", "Full Time"),
     EmpWithOt("Ali", "Part Time", BlankCell), EmpWithOt("Ali", " full time ", BlankCell)}

\* one worksheet with a batch of shifts and pass-through columns
InitBatch ==
    /\ date_format = "Storehub"
    /\ \E e \in BatchEmployees : employees = <<e>>
    /\ sheet_names = <<"Ali">>
    /\ \E extra \in Extras :
         \E df \in SeqsUpTo({WithExtras(Shift("Storehub", days, ticks), extra) :
                                days \in Months, ticks \in BatchTicks}, MaxRows) :
            xls = [n \in {"Ali"} |-> df]
    /\ Start

SheetNames == {"Ali", "Bo", "Zed", "Yan"}
Directory == <<EmpWithOt("Ali", "Part Time", NumCell(Q(8, 1))),
               EmpWithOt("Bo", "Full Time", NumCell(Q(6, 1)))>>
OtherFormat(fmt) == IF fmt = "Feedme" THEN "Storehub" ELSE "Feedme"

\* the worksheets of a run: empty, valid, or with a timestamp that does not
\* parse under the selected format
RunSheets(fmt) ==
    { <<>>,
      <<Shift(fmt, December, 108)>>,
      <<Shift(fmt, February, 132), Shift(fmt, December, 36)>>,
      <<Shift(OtherFormat(fmt), December, 108)>>,
      <<Shift(fmt, February, 108),
        [Shift(fmt, February, 36) EXCEPT !["Clock Out"].fmt = OtherFormat(fmt)]>> }

\* a workbook of several worksheets, some of them of unknown employees
InitRun ==
    /\ date_format \in Formats
    /\ employees = Directory
    /\ sheet_names \in {s \in SeqsUpTo(SheetNames, MaxSheets) :
                           /\ Len(s) >= 1
                           /\ \A i, j \in 1..Len(s) : i # j => s[i] # s[j]}
    /\ xls \in [{sheet_names[i] : i \in 1..Len(sheet_names)} -> RunSheets(date_format)]
    /\ Start

Init == InitShift \/ InitBatch \/ InitRun

Spec == Init /\ [][Next]_vars

-----------------------------------------------------------------------------
(* Vocabulary of the properties *)

Range(f) == {f[i] : i \in DOMAIN f}

Processed == DOMAIN processed_sheets

\* the itemized records of a processed worksheet: all rows but the TOTAL row
Items(s) ==
    LET df == processed_sheets[s]
    IN  IF df = <<>> THEN <<>> ELSE SubSeq(df, 1, Len(df) - 1)

TotalOf(s) == processed_sheets[s][Len(processed_sheets[s])]

\* the directory row of the employee a worksheet is named after
EmployeeOf(s) == employees[CHOOSE i \in 1..Len(employees) :
                    /\ employees[i]["Name"] = s
                    /\ \A j \in 1..(i - 1) : employees[j]["Name"] # s]

IsFullTime(e) == StripLower(e["Status"]) = "full time"

Known(s) == \E i \in 1..Len(employees) : employees[i]["Name"] = s

Parses(cell) == cell.fmt = date_format

ValidSheet(s) ==
    \A k \in 1..Len(xls[s]) : Parses(xls[s][k]["Clock In"]) /\ Parses(xls[s][k]["Clock Out"])

\* raw duration in hours of the shift a record was made from
RawHours(r) == HoursBetween(r["Clock In"], r["Clock Out"])

Near(a, b, eps) == Le(Sub(a, b), eps) /\ Le(Sub(b, a), eps)

\* sum of a series in float arithmetic: NaN propagates
RECURSIVE PlainSum(_)
PlainSum(s) == IF s = <<>> THEN Q(0, 1) ELSE Add(Head(s), PlainSum(Tail(s)))

AllItems == UNION {{<<s, k>> : k \in 1..Len(Items(s))} : s \in Processed}

-----------------------------------------------------------------------------
(* C1: every itemized record follows the four-case premium table on        *)
(* (status, holiday flag), and its Total Pay is Regular Pay + Overtime Pay *)
PremiumTableHolds(r, e) ==
    LET rate == r["Hourly Rate"]
        rh   == r["Regular Hours"]
        oh   == r["Overtime Hours"]
        hol  == r["Is Public Holiday"]
        reg  == r["Regular Pay"]
        ot   == r["Overtime Pay"]
    IN  /\ ~IsFullTime(e) /\ ~hol => /\ reg = Mul(rh, rate)
                                    /\ ot = Mul(Mul(oh, rate), Q(3, 2))
        /\ ~IsFullTime(e) /\ hol  => /\ reg = Mul(Mul(rh, rate), Q(2, 1))
                                    /\ ot = Mul(Mul(oh, rate), Q(3, 1))
        /\ IsFullTime(e) /\ ~hol  => /\ reg = Q(0, 1)
                                    /\ ot = Mul(Mul(oh, rate), Q(3, 2))
        /\ IsFullTime(e) /\ hol   => /\ reg = Mul(Mul(rh, rate), Q(1, 1))
                                    /\ ot = Mul(Mul(oh, rate), Q(2, 1))
        /\ r["Total Pay"] = Add(reg, ot)

\* C1: the pay amounts of every itemized record follow the premium table
C1_PremiumTable ==
    \A p \in AllItems : PremiumTableHolds(Items(p[1])[p[2]], EmployeeOf(p[1]))

HasCase(full, hol) ==
    \E p \in AllItems :
        LET r == Items(p[1])[p[2]]
        IN  /\ IsFullTime(EmployeeOf(p[1])) = full
            /\ r["Is Public Holiday"] = hol
            /\ Lt(Q(0, 1), r["Regular Hours"])
            /\ (full /\ ~hol) \/ Lt(Q(0, 1), r["Regular Pay"])

\* C1 witness: a finished run whose output holds all four cases of the
\* table, one of them with overtime that is paid
C1_Witness ==
    /\ pc = "done"
    /\ Processed = DOMAIN output
    /\ \A full \in BOOLEAN, hol \in BOOLEAN : HasCase(full, hol)
    /\ \E p \in AllItems : Lt(Q(0, 1), Items(p[1])[p[2]]["Overtime Pay"])

-----------------------------------------------------------------------------
\* C2 (as claimed): the TOTAL row of a non-empty batch holds the plain sum of
\* Overtime Pay, the plain sum of Regular Pay (part time) or Base Salary plus
\* the Regular Pay of the holiday shifts (full time), and their sum
C2_TotalsArePlainSums ==
    \A s \in Processed :
        Items(s) # <<>> =>
            LET e         == EmployeeOf(s)
                total     == TotalOf(s)
                total_ot  == PlainSum(Column(Items(s), "Overtime Pay"))
                total_reg ==
                    IF IsFullTime(e)
                    THEN Add(e["Base Salary"],
                             PlainSum(Column(SelectSeq(Items(s), IsHolidayRow), "Regular Pay")))
                    ELSE PlainSum(Column(Items(s), "Regular Pay"))
            IN  /\ total["Overtime Pay"] = total_ot
                /\ total["Regular Pay"] = total_reg
                /\ total["Total Pay"] = Add(total["Regular Pay"], total["Overtime Pay"])

-----------------------------------------------------------------------------
\* C3 (as claimed): in every itemized record Regular Hours + Overtime Hours
\* is Adjusted Hours and neither of the two is negative
C3_HoursSplit ==
    \A p \in AllItems :
        LET r == Items(p[1])[p[2]]
        IN  /\ Add(r["Regular Hours"], r["Overtime Hours"]) = r["Adjusted Hours"]
            /\ Le(Q(0, 1), r["Regular Hours"])
            /\ Le(Q(0, 1), r["Overtime Hours"])

-----------------------------------------------------------------------------
\* Scenario A: part time, rate 10, threshold 8, non-holiday shift of 9 raw hours
IsScenarioA(r, e) ==
    /\ ~IsFullTime(e)
    /\ e["Hourly Rate"] = Q(10, 1)
    /\ "OT Threshold" \in DOMAIN e
    /\ e["OT Threshold"] = NumCell(Q(8, 1))
    /\ ~is_public_holiday(r["Clock In"], ph_list)
    /\ RawHours(r) = Q(9, 1)

\* C4 (as claimed): Scenario A gets a 1-hour break: adjusted 8, regular 8,
\* overtime 0, regular pay 80, overtime pay 0
C4_ScenarioA_Claimed ==
    \A p \in AllItems :
        LET r == Items(p[1])[p[2]]
        IN  IsScenarioA(r, EmployeeOf(p[1])) =>
                /\ Sub(RawHours(r), r["Adjusted Hours"]) = Q(1, 1)
                /\ r["Adjusted Hours"] = Q(8, 1)
                /\ r["Regular Hours"] = Q(8, 1)
                /\ r["Overtime Hours"] = Q(0, 1)
                /\ r["Regular Pay"] = Q(80, 1)
                /\ r["Overtime Pay"] = Q(0, 1)

\* C4 (amended): Scenario A gets a half-hour break: adjusted 8.5, regular 8,
\* overtime 0.5, regular pay 80, overtime pay 7.5
C4_ScenarioA ==
    \A p \in AllItems :
        LET r == Items(p[1])[p[2]]
        IN  IsScenarioA(r, EmployeeOf(p[1])) =>
                /\ Sub(RawHours(r), r["Adjusted Hours"]) = Q(1, 2)
                /\ r["Adjusted Hours"] = Q(17, 2)
                /\ r["Regular Hours"] = Q(8, 1)
                /\ r["Overtime Hours"] = Q(1, 2)
                /\ r["Regular Pay"] = Q(80, 1)
                /\ r["Overtime Pay"] = Q(15, 2)

\* C4 witness: a Scenario A shift has been processed
C4_Witness ==
    \E p \in AllItems : IsScenarioA(Items(p[1])[p[2]], EmployeeOf(p[1]))

-----------------------------------------------------------------------------
\* C5 (as claimed): when the run is over, every worksheet of a known employee
\* whose rows are valid is in the output, and every known worksheet with a
\* failing row was skipped with a recorded warning
C5_FailureIsolated ==
    pc = "done" =>
        \A s \in Range(sheet_names) :
            /\ Known(s) /\ ValidSheet(s) => s \in DOMAIN output
            /\ Known(s) /\ ~ValidSheet(s) =>
                   s \in Range(warnings) /\ s \notin DOMAIN output

-----------------------------------------------------------------------------
\* C6 (as claimed): no itemized record is emitted for a shift whose clock-out
\* is not strictly after its clock-in
C6_NoRecordForNonPositiveShift ==
    \A p \in AllItems : Lt(Q(0, 1), RawHours(Items(p[1])[p[2]]))

-----------------------------------------------------------------------------
\* C7 (as claimed): when the run is over, every worksheet of an unknown
\* employee has a warning and no output entry, and every other worksheet of
\* the run (known employee, valid rows) is in the output
C7_UnknownSkippedOthersProcessed ==
    pc = "done" =>
        \A u \in Range(sheet_names) :
            ~Known(u) =>
                /\ u \in Range(warnings)
                /\ u \notin DOMAIN output
                /\ \A s \in Range(sheet_names) \ {u} :
                       Known(s) /\ ValidSheet(s) => s \in DOMAIN output

-----------------------------------------------------------------------------
\* the threshold C8 expects: the configured number when usable, else 8.0
ExpectedThreshold(e) ==
    IF "OT Threshold" \notin DOMAIN e THEN Q(8, 1)
    ELSE IF e["OT Threshold"].numeric /\ ~e["OT Threshold"].val.nan
         THEN e["OT Threshold"].val
         ELSE Q(8, 1)

\* C8 (as claimed): every itemized record splits its hours at the configured
\* OT Threshold when that is a usable number and at 8.0 otherwise
C8_ThresholdDefault ==
    \A p \in AllItems :
        LET r  == Items(p[1])[p[2]]
            th == ExpectedThreshold(EmployeeOf(p[1]))
        IN  /\ r["Regular Hours"] = PyMin(th, r["Adjusted Hours"])
            /\ r["Overtime Hours"] = PyMax(Q(0, 1), Sub(r["Adjusted Hours"], th))

-----------------------------------------------------------------------------
\* the duration after the break the tiers of C9 deduct
Deducted(d) ==
    IF Le(d, Q(4, 1)) THEN d
    ELSE IF Lt(d, Q(10, 1)) THEN Sub(d, Q(1, 2)) ELSE Sub(d, Q(1, 1))

\* C9: for a raw duration d >= 0, Adjusted Hours is a multiple of 0.5 within
\* 0.25 hours of d (d <= 4), d - 0.5 (4 < d < 10) or d - 1 (d >= 10)
C9_AdjustedHours ==
    \A p \in AllItems :
        LET r   == Items(p[1])[p[2]]
            d   == RawHours(r)
            adj == r["Adjusted Hours"]
        IN  Le(Q(0, 1), d) =>
                /\ ~adj.nan
                /\ adj.d \in {1, 2}
                /\ Near(adj, Deducted(d), Q(1, 4))
                /\ Le(d, Q(4, 1)) => Near(adj, d, Q(1, 4))

\* C9 witness: shifts of exactly 4 hours (no break), of 4h45 (half-hour
\* break, a rounding tie) and of 10 hours (one-hour break) have been processed
C9_WitnessAt(d, adj) ==
    \E p \in AllItems :
        /\ RawHours(Items(p[1])[p[2]]) = d
        /\ Items(p[1])[p[2]]["Adjusted Hours"] = adj

C9_Witness == C9_WitnessAt(Q(57, 12), Q(4, 1))
C9_WitnessNoBreak == C9_WitnessAt(Q(4, 1), Q(4, 1))
C9_WitnessLong == C9_WitnessAt(Q(10, 1), Q(9, 1))

-----------------------------------------------------------------------------
\* C10 (as claimed): every itemized record carries every column of its source
\* row other than Name with the source value
C10_PassThrough ==
    \A s \in Processed :
        \A k \in 1..Len(xls[s]) :
            \A c \in DOMAIN xls[s][k] \ {"Name"} :
                /\ k <= Len(Items(s))
                /\ c \in DOMAIN Items(s)[k]
                /\ Items(s)[k][c] = xls[s][k][c]

====
